---- MODULE Spec2Model ----
(***************************************************************************)
(* Session / message / user relay of the voice-agent backend.             *)
(*                                                                         *)
(* The store is the DuckDB-backed DatabaseService; every HTTP handler is a *)
(* process that is suspended at each `await`, so handlers interleave at    *)
(* their store calls.  A store call is modelled by the SQL statement it    *)
(* issues (with its parameters bound), executed atomically.                *)
(***************************************************************************)
EXTENDS Integers, Sequences, FiniteSets, TLC

\* ------------------------------------------------------------------ bounds
MaxTime == 2          \* the clock runs 0..MaxTime
MaxReqs == 2          \* HTTP requests that can be in flight together (SpecRace)
MaxMsgs == 2          \* messages submitted in one behaviour
MaxUsers == 3         \* user ids generateId() hands out in one behaviour
MaxEntities == 2      \* entities extraction finds in one message
MaxMemories == 4      \* rows the memory store can take in one behaviour
MaxJoins == 2         \* session_messages events a listening client takes in
MaxTokens == 3        \* words in a text given to entity extraction
MaxConnections == 2   \* connections in the pool (config.maxConnections, 5 by default)

\* RATE_LIMIT_POINTS and TOKEN_RATE_LIMIT_POINTS, scaled down: the requests one
\* IP may make in a window, and the session/token requests among them
RATE_LIMIT_POINTS == 2
TOKEN_RATE_LIMIT_POINTS == 1

\* MAX_MESSAGE_LENGTH, in characters of the model's short messages
MAX_MESSAGE_LENGTH == 2

\* SESSION_TIMEOUT: the '-30 minutes' window of cleanupExpiredSessions, in ticks
SessionTimeout == 1

SessionIds == {"s1", "s2"}          \* ids generateId() can return
Reqs == 1..MaxReqs
Solo == {1}                         \* one request at a time (Spec)
NoTime == 0 - 1                     \* end_time IS NULL / field not given
NoStatus == "unset"                 \* status field not given
Statuses == {"active", "ended", "paused"}

\* a row of table sessions; status "absent" stands for "no row with this id"
NoRow == [status |-> "absent", startTime |-> NoTime, endTime |-> NoTime]
NoUpdates == [status |-> NoStatus, endTime |-> NoTime]

\* an HTTP handler: what it was asked, where it is suspended, what it answered,
\* `steps`, the side effects it has performed so far, in order, and `read`, the
\* status of `existingSession` while the handler still has its write to make
IdleReq == [kind |-> "idle", pc |-> "idle", sid |-> "s1", mid |-> 0, upd |-> NoUpdates,
            resp |-> 0, body |-> "absent", steps |-> <<>>, len |-> 0, ts |-> NoTime,
            meta |-> "undefined", rows |-> <<>>, ip |-> "none", read |-> "absent"]

IPs == {"ip1", "ip2"}               \* client addresses (req.ip)
Limiters == {"general", "token"}    \* generalLimiter, tokenLimiter

Clients == {"c1", "c2"}             \* connected sockets
Listener == {"c1"}                  \* one socket listening (SpecHttp)
MsgIds == 1..MaxMsgs
NoSession == "none"

\* a socket's handler: the event it serves, where it is suspended, and `out`,
\* the last event the server emitted to this socket alone
IdleSock == [kind |-> "idle", pc |-> "idle", sid |-> "s1", mid |-> 0, out |-> "none",
             len |-> 0, ts |-> NoTime]

\* the content length and timestamp of a stored message
NoMessage == [len |-> 0, ts |-> NoTime]

VARIABLES
  sessions,      \* table sessions: [SessionIds -> row]
  blob,          \* column sessions.metadata: [SessionIds -> the text stored]
  usedIds,       \* ids generateId() has handed out
  now,           \* wall clock
  cleanedCount,  \* what the last cleanupExpiredSessions() returned (NoTime: none yet)
  req,           \* [Reqs -> request]: the HTTP handlers in flight
  messages,      \* table messages: [MsgIds -> session id], NoSession if not stored
  stored,        \* table messages, the other columns: [MsgIds -> [len, ts]]
  nextMsg,       \* the next unused message id
  rooms,         \* [Clients -> SUBSET SessionIds]: the rooms each socket has joined
  sock,          \* [Clients -> handler]: the socket event handlers in flight
  got,           \* [Clients -> SUBSET MsgIds]: new_message events each socket received
  emitted,       \* the new_message broadcasts made: [mid, sid, from, room at the time]
  inbox,         \* [Clients -> the events a listening client took in, in order]
  users,         \* table users: a set of rows [id, name, email]
  nextUser,      \* the next unused user id
  ureq,          \* [Reqs -> request]: the POST /api/users handlers in flight
  isConfigured,  \* AIIntegrationService.isConfigured, fixed by initialize()
  memStore,      \* number of rows in the memory store
  task,          \* the message being enriched: pipeline, position, result so far
  proc,          \* the server process: its phase and what its environment holds
  consumed,      \* [IPs -> [Limiters -> points consumed in the current window]]
  doc,           \* a text given to entity extraction: the path taken and the entities found
  pool           \* the connection pool: round-robin index, open transactions, statements

gateway == <<messages, stored, nextMsg, rooms, sock, got, emitted, inbox>>
accounts == <<users, nextUser, ureq>>
pipeline == <<isConfigured, memStore, task>>
platform == <<proc, consumed, doc, pool>>
offSessions == <<gateway, accounts, pipeline, platform>>
vars == <<sessions, blob, usedIds, now, cleanedCount, req, gateway, accounts, pipeline, platform>>

\* ------------------------------------------------------- DatabaseService
\* the metadata a client can give (none, {} or an object with entries), and
\* what column metadata can hold: NULL, the text of one of the two objects, or
\* text that is not JSON
Metas == {"undefined", "empty", "object"}
Blobs == {"null", "{}", "{...}", "garbage"}

\* JSON.stringify(session.metadata || {})
JSONstringify(meta) == IF meta = "object" THEN "{...}" ELSE "{}"

\* JSON.parse(text): throws a SyntaxError on text that is not JSON
JSONparse(text) ==
  CASE text = "{}" -> "empty"
    [] text = "{...}" -> "object"
    [] OTHER -> "throws"

\* `row.metadata ? JSON.parse(row.metadata) : undefined`
DecodeMetadata(text) == IF text = "null" THEN "undefined" ELSE JSONparse(text)

getSession(sid) == sessions[sid]

Exists(sid) == sessions[sid].status # "absent"

\* UPDATE sessions SET <given fields> WHERE id = ?
ApplyUpdates(row, upd) ==
  [row EXCEPT !.status = IF upd.status # NoStatus THEN upd.status ELSE @,
              !.endTime = IF upd.endTime # NoTime THEN upd.endTime ELSE @]

updateSession(sid, upd) ==
  IF Exists(sid) THEN [sessions EXCEPT ![sid] = ApplyUpdates(@, upd)]
  ELSE sessions

\* start_time < datetime('now', '-30 minutes')
Expired(row) == row.startTime < now - SessionTimeout

CleanupTargets_TooLate ==
  {s \in SessionIds : sessions[s].status = "active" /\ sessions[s].startTime < now - SessionTimeout - 1}

CleanupTargets_AnyStatus ==
  {s \in SessionIds : Exists(s) /\ Expired(sessions[s])}

\* the rows the cleanup UPDATE matches
CleanupTargets == {s \in SessionIds : sessions[s].status = "active" /\ Expired(sessions[s])}

\* ------------------------------------------------------------- the clock
Tick ==
  /\ now < MaxTime
  /\ now' = now + 1
  /\ UNCHANGED <<blob, sessions, usedIds, cleanedCount, req, offSessions>>

\* ----------------------------------------------- routes/sessions.ts handlers
\* a slot takes a new request once its last response has been sent
Free(r) == req[r].pc \in {"idle", "done"}

Finish(r, code, row) ==
  req' = [req EXCEPT ![r].pc = "done", ![r].resp = code, ![r].body = row.status, ![r].upd = NoUpdates]

\* the status a handler sends once its store write has been made: 201 by the
\* v1 message router, 200 by the others
StoredReply_NotFound(kind) == 404

StoredReply(kind) == IF kind = "messageV1" THEN 201 ELSE 200

\* POST /api/sessions: validate, build the session, await createSession
PostSession(r, meta) ==
  /\ Free(r)
  /\ \E validUserId \in BOOLEAN :
       IF ~validUserId
       THEN /\ req' = [req EXCEPT ![r] = [IdleReq EXCEPT !.kind = "create", !.pc = "done", !.resp = 400]]
            /\ UNCHANGED usedIds
       ELSE \E id \in SessionIds \ usedIds :
            /\ usedIds' = usedIds \cup {id}
            /\ req' = [req EXCEPT ![r] = [IdleReq EXCEPT !.kind = "create", !.pc = "insert", !.sid = id,
                                            !.upd = [status |-> "active", endTime |-> now],
                                            !.meta = IF meta = "undefined" THEN "empty" ELSE meta]]
  /\ UNCHANGED <<blob, sessions, now, cleanedCount, offSessions>>

\* createSession: one transaction inserting the row and its analytics event
CreateSessionCommit(r) ==
  /\ req[r].kind = "create" /\ req[r].pc = "insert"
  /\ sessions' = [sessions EXCEPT ![req[r].sid] =
                    [status |-> req[r].upd.status, startTime |-> req[r].upd.endTime, endTime |-> NoTime]]
  /\ blob' = [blob EXCEPT ![req[r].sid] = JSONstringify(req[r].meta)]
  /\ req' = [req EXCEPT ![r].pc = "done", ![r].resp = 201, ![r].steps = Append(@, "store"), ![r].body = "active",
                         ![r].upd = NoUpdates, ![r].meta = "undefined"]
  /\ UNCHANGED <<usedIds, now, cleanedCount, offSessions>>

\* the status a POST /:sessionId/<op> asks for
TargetOf(op) == CASE op = "end" -> "ended" [] op = "pause" -> "paused" [] op = "resume" -> "active"

\* the handler's guard: `existingSession.status === '<target>'` answers 400
Rejects(op, row) == row.status = TargetOf(op)

\* the updates object the handler passes to updateSession
UpdatesOf(op) ==
  [status |-> TargetOf(op), endTime |-> IF op = "end" THEN now ELSE NoTime]

\* POST /:sessionId/end | pause | resume, up to the first await's result
PostTransition(r, op, sid) ==
  /\ Free(r)
  /\ LET row == getSession(sid) IN
       req' = [req EXCEPT ![r] =
         IF ~Exists(sid) THEN [IdleReq EXCEPT !.kind = op, !.sid = sid, !.pc = "done", !.resp = 404]
         ELSE IF Rejects(op, row) THEN [IdleReq EXCEPT !.kind = op, !.sid = sid, !.pc = "done", !.resp = 400]
         ELSE [IdleReq EXCEPT !.kind = op, !.sid = sid, !.pc = "update", !.upd = UpdatesOf(op),
                              !.read = row.status]]
  /\ UNCHANGED <<blob, sessions, usedIds, now, cleanedCount, offSessions>>

\* PUT /:sessionId: zod validation, then getSession, then the updates object
PutSession(r, sid, status, endTime) ==
  /\ Free(r)
  /\ req' = [req EXCEPT ![r] =
       IF status \notin Statuses \cup {NoStatus}
       THEN [IdleReq EXCEPT !.kind = "put", !.sid = sid, !.pc = "done", !.resp = 400]
       ELSE IF ~Exists(sid) THEN [IdleReq EXCEPT !.kind = "put", !.sid = sid, !.pc = "done", !.resp = 404]
       ELSE [IdleReq EXCEPT !.kind = "put", !.sid = sid, !.pc = "update",
                            !.upd = [status |-> status, endTime |-> endTime],
                            !.read = getSession(sid).status]]
  /\ UNCHANGED <<blob, sessions, usedIds, now, cleanedCount, offSessions>>

\* `await database.updateSession(sessionId, updates)`: the UPDATE, then the
\* session_updated analytics row (a table no handler of this model reads)
UpdateStatement(r) ==
  /\ req[r].pc = "update"
  /\ sessions' = updateSession(req[r].sid, req[r].upd)
  /\ req' = [req EXCEPT ![r].pc = "reread", ![r].steps = Append(@, "store"), ![r].read = "absent"]
  /\ UNCHANGED <<blob, usedIds, now, cleanedCount, offSessions>>

\* `const updatedSession = await database.getSession(sessionId)` and the 200
Reread(r) ==
  /\ req[r].pc = "reread"
  /\ Finish(r, StoredReply(req[r].kind), getSession(req[r].sid))
  /\ UNCHANGED <<blob, sessions, usedIds, now, cleanedCount, offSessions>>

\* DELETE /:sessionId, up to the first await's result
DeleteSession(r, sid) ==
  /\ Free(r)
  /\ req' = [req EXCEPT ![r] =
       IF ~Exists(sid) THEN [IdleReq EXCEPT !.kind = "delete", !.sid = sid, !.pc = "done", !.resp = 404]
       ELSE [IdleReq EXCEPT !.kind = "delete", !.sid = sid, !.pc = "delete"]]
  /\ UNCHANGED <<blob, sessions, usedIds, now, cleanedCount, offSessions>>

\* deleteSession with no foreign key on table messages
DeleteSessionCommit_NoForeignKey(r) ==
  /\ req[r].pc = "delete"
  /\ sessions' = [sessions EXCEPT ![req[r].sid] = NoRow]
  /\ blob' = [blob EXCEPT ![req[r].sid] = "null"]
  /\ req' = [req EXCEPT ![r].pc = "done", ![r].resp = 200, ![r].steps = Append(@, "store")]
  /\ UNCHANGED <<usedIds, now, cleanedCount, offSessions>>

\* deleteSession: one transaction logging the event and deleting the row.
\* messages.session_id REFERENCES sessions(id) with no ON DELETE action: the
\* DELETE of a row that messages still reference fails, the transaction is
\* rolled back and the route's catch answers 500.
DeleteSessionCommit(r) ==
  /\ req[r].pc = "delete"
  /\ IF \E m \in MsgIds : messages[m] = req[r].sid
     THEN /\ req' = [req EXCEPT ![r].pc = "done", ![r].resp = 500]
          /\ UNCHANGED <<sessions, blob>>
     ELSE /\ sessions' = [sessions EXCEPT ![req[r].sid] = NoRow]
          /\ blob' = [blob EXCEPT ![req[r].sid] = "null"]
          /\ req' = [req EXCEPT ![r].pc = "done", ![r].resp = 200, ![r].steps = Append(@, "store")]
  /\ UNCHANGED <<usedIds, now, cleanedCount, offSessions>>

\* ------------------------------------------------ cleanupExpiredSessions
\* one transaction: cleanup_started, the UPDATE, cleanup_completed; returns
\* result.changes, the number of rows the UPDATE matched
cleanupExpiredSessions ==
  /\ sessions' = [s \in SessionIds |->
                    IF s \in CleanupTargets
                    THEN [sessions[s] EXCEPT !.status = "ended", !.endTime = now]
                    ELSE sessions[s]]
  /\ cleanedCount' = Cardinality(CleanupTargets)
  /\ UNCHANGED <<blob, usedIds, now, req, offSessions>>

\* what cleanedCount holds after a pass that threw
Threw == 0 - 2

\* the setInterval callback: `try { cleanedCount = await
\* database.cleanupExpiredSessions(); ... } catch (error) { logger.error(...) }`.
\* A pass that throws is rolled back and logged; the interval stays armed.
CleanupTimer_StopsOnThrow(ok) ==
  /\ cleanedCount # Threw
  /\ IF ok THEN cleanupExpiredSessions
     ELSE /\ cleanedCount' = Threw
          /\ UNCHANGED <<blob, sessions, usedIds, now, req, offSessions>>

CleanupTimer(ok) ==
  IF ok THEN cleanupExpiredSessions
  ELSE /\ cleanedCount' = Threw
       /\ UNCHANGED <<blob, sessions, usedIds, now, req, offSessions>>

\* ------------------------------------------------- messages and the gateway
\* the shapes a message payload can have: the two full schemas of the shared
\* package, the two creation schemas of the v1 router, or none of them
Shapes == {"voice", "agent", "createVoice", "createAgent", "invalid"}

\* safeParseVoiceMessage(data).success: every field of VoiceMessageSchema is
\* there, `content` is z.string().min(1) and `timestamp` is a date
safeParseVoiceMessage(shape, len, ts) == shape = "voice" /\ len >= 1 /\ ts # NoTime

\* one of the four schemas the v1 router tries accepts the body: the full
\* schemas want a timestamp, the creation schemas take it as optional; all of
\* them want `content` of at least one character
ParsesV1(shape, len, ts) ==
  /\ shape # "invalid"
  /\ len >= 1
  /\ shape \in {"voice", "agent"} => ts # NoTime

\* `timestamp ? new Date(timestamp) : new Date()`
TimestampOf(ts) == IF ts = NoTime THEN now ELSE ts

\* the rows of table messages
StoredIds == {m \in MsgIds : messages[m] # NoSession}

\* INSERT INTO messages (...): a new row, keyed by the message's id
InsertMessage_LastWins(h) ==
  /\ messages' = [m \in MsgIds |-> IF m = h.mid THEN h.sid
                                   ELSE IF messages[m] = h.sid THEN NoSession ELSE messages[m]]
  /\ stored' = [m \in MsgIds |-> IF m = h.mid THEN [len |-> h.len, ts |-> h.ts]
                                 ELSE IF messages[m] = h.sid THEN NoMessage ELSE stored[m]]

InsertMessage(h) ==
  /\ messages' = [messages EXCEPT ![h.mid] = h.sid]
  /\ stored' = [stored EXCEPT ![h.mid] = [len |-> h.len, ts |-> h.ts]]

\* what the message handlers and socket handlers leave alone
offGateway == <<sessions, blob, usedIds, now, cleanedCount, accounts, pipeline, platform>>

\* `if (session)` in join_session
CanJoin_Always(sid) == TRUE

CanJoin(sid) == Exists(sid)

\* the sockets in room `sid`
Room(sid) == {c \in Clients : sid \in rooms[c]}

\* io.to(room).emit reaches every socket in the room; socket.to(room).emit
\* reaches every socket in the room except `socket` itself
Recipients_All(sid, from) == Room(sid)

Recipients(sid, from) == Room(sid) \ {from}

\* emit('new_message', message) to the room of the message's session
Broadcast(mid, sid, from) ==
  /\ got' = [c \in Clients |-> IF c \in Recipients(sid, from) THEN got[c] \cup {mid} ELSE got[c]]
  /\ emitted' = emitted \cup {[mid |-> mid, sid |-> sid, from |-> from, room |-> Room(sid)]}

\* what a message handler awaits once getSession has found the session
AfterGetSession_Emit(kind) == IF kind = "message" THEN "emit" ELSE "addMessage"

AfterGetSession(kind) == "addMessage"

\* POST /api/messages of the server file: parse, then getSession
PostMessage(r, shape, len, ts, sid) ==
  /\ Free(r)
  /\ IF ~safeParseVoiceMessage(shape, len, ts)
     THEN /\ req' = [req EXCEPT ![r] = [IdleReq EXCEPT !.kind = "message", !.pc = "done", !.resp = 400]]
          /\ UNCHANGED nextMsg
     ELSE IF ~Exists(sid)
     THEN /\ req' = [req EXCEPT ![r] = [IdleReq EXCEPT !.kind = "message", !.pc = "done", !.resp = 404]]
          /\ UNCHANGED nextMsg
     ELSE /\ nextMsg <= MaxMsgs
          /\ req' = [req EXCEPT ![r] = [IdleReq EXCEPT !.kind = "message", !.sid = sid, !.pc = AfterGetSession("message"),
                                                        !.mid = nextMsg, !.len = len, !.ts = ts]]
          /\ nextMsg' = nextMsg + 1
  /\ UNCHANGED <<offGateway, inbox, messages, stored, rooms, sock, got, emitted>>

\* POST /api/messages of the v1 router: the four schemas in turn, then getSession
PostMessageV1(r, shape, len, ts, sid) ==
  /\ Free(r)
  /\ IF ~ParsesV1(shape, len, ts)
     THEN /\ req' = [req EXCEPT ![r] = [IdleReq EXCEPT !.kind = "messageV1", !.pc = "done", !.resp = 400]]
          /\ UNCHANGED nextMsg
     ELSE IF ~Exists(sid)
     THEN /\ req' = [req EXCEPT ![r] = [IdleReq EXCEPT !.kind = "messageV1", !.pc = "done", !.resp = 404]]
          /\ UNCHANGED nextMsg
     ELSE /\ nextMsg <= MaxMsgs
          /\ req' = [req EXCEPT ![r] = [IdleReq EXCEPT !.kind = "messageV1", !.sid = sid, !.pc = AfterGetSession("messageV1"),
                                                        !.mid = nextMsg, !.len = len, !.ts = TimestampOf(ts)]]
          /\ nextMsg' = nextMsg + 1
  /\ UNCHANGED <<offGateway, inbox, messages, stored, rooms, sock, got, emitted>>

\* `await database.addMessage(...)`: the INSERT (messages.session_id references
\* sessions.id) and its analytics row in one transaction; a failed INSERT is
\* rolled back and the handler's catch answers 500.  The v1 router answers 201
\* here; the server file goes on to emit.
AddMessageCommit(r) ==
  /\ req[r].pc = "addMessage"
  /\ IF Exists(req[r].sid)
     THEN /\ InsertMessage(req[r])
          /\ req' = [req EXCEPT ![r].steps = Append(@, "store"), ![r].len = 0, ![r].ts = NoTime,
                                ![r].pc = IF req[r].kind = "message" THEN "emit" ELSE "done",
                                ![r].sid = IF req[r].kind = "message" THEN @ ELSE "s1",
                                ![r].mid = IF req[r].kind = "message" THEN @ ELSE 0,
                                ![r].resp = IF req[r].kind = "message" THEN 0 ELSE StoredReply(req[r].kind)]
     ELSE /\ req' = [req EXCEPT ![r].pc = "done", ![r].resp = 500, ![r].sid = "s1", ![r].mid = 0,
                                ![r].len = 0, ![r].ts = NoTime]
          /\ UNCHANGED <<messages, stored>>
  /\ UNCHANGED <<offGateway, inbox, nextMsg, rooms, sock, got, emitted>>

\* io.to(voiceMessage.sessionId).emit('new_message', voiceMessage); res.json(...)
\* `listening`: the sockets are clients of the frontend hook, whose event log
\* the model keeps
EmitNewMessage(r, listening) ==
  /\ req[r].pc = "emit"
  /\ Broadcast(req[r].mid, req[r].sid, "http")
  /\ inbox' = IF listening
              THEN [c \in Clients |->
                      IF c \in Recipients(req[r].sid, "http")
                      THEN Append(inbox[c], [event |-> "new_message", rows |-> <<req[r].mid>>])
                      ELSE inbox[c]]
              ELSE inbox
  /\ req' = [req EXCEPT ![r].pc = "done", ![r].resp = StoredReply(req[r].kind), ![r].steps = Append(@, "broadcast"),
                         ![r].sid = "s1", ![r].mid = 0]
  /\ UNCHANGED <<offGateway, messages, stored, nextMsg, rooms, sock>>

\* the rows of table messages WHERE session_id = sid
SessionRows(sid) == {m \in StoredIds : messages[m] = sid}

\* the ways of listing the ids of S, each once
Listings(S) ==
  {h \in [1..Cardinality(S) -> S] : \A i, j \in 1..Cardinality(S) : h[i] = h[j] => i = j}

\* a scan of the rows in the order of their ids, the order of submission
getSessionMessages_ById(sid) ==
  {h \in Listings(SessionRows(sid)) : \A i, j \in 1..Len(h) : i < j => h[i] < h[j]}

\* SELECT * FROM messages WHERE session_id = ? ORDER BY timestamp ASC: the
\* results the query can give, rows of equal timestamp coming in any order
getSessionMessages(sid) ==
  {h \in Listings(SessionRows(sid)) :
     \A i, j \in 1..Len(h) : i < j => stored[h[i]].ts <= stored[h[j]].ts}

\* ------------------------------------------------- the in-memory server
\* The server variant that keeps `sessions` and `messages` in two Maps; its
\* handlers make no store call, so each runs to its response in one step.

\* POST /api/sessions: the rate limiter, `if (!userId)`, createSession(userId)
MemPostSession(r) ==
  /\ Free(r)
  /\ \E outcome \in {"limited", "noUserId", "created"} :
       IF outcome = "created"
       THEN \E id \in SessionIds \ usedIds :
            /\ usedIds' = usedIds \cup {id}
            /\ sessions' = [sessions EXCEPT ![id] = [status |-> "active", startTime |-> now, endTime |-> NoTime]]
            /\ req' = [req EXCEPT ![r] = [IdleReq EXCEPT !.kind = "create", !.pc = "done", !.resp = 200,
                                                          !.body = "active"]]
       ELSE /\ req' = [req EXCEPT ![r] = [IdleReq EXCEPT !.kind = "create", !.pc = "done",
                                                          !.resp = IF outcome = "limited" THEN 429 ELSE 400]]
            /\ UNCHANGED <<sessions, usedIds>>
  /\ UNCHANGED <<blob, now, cleanedCount, offSessions>>

\* POST /api/messages: safeParseVoiceMessage, messages.get(sessionId), push,
\* io.to(sessionId).emit('new_message', ...), res.json
MemPostMessage(r, shape, len, ts, sid) ==
  /\ Free(r)
  /\ IF ~safeParseVoiceMessage(shape, len, ts)
     THEN /\ req' = [req EXCEPT ![r] = [IdleReq EXCEPT !.kind = "message", !.pc = "done", !.resp = 400]]
          /\ UNCHANGED <<messages, stored, nextMsg, got, emitted>>
     ELSE IF ~Exists(sid)
     THEN /\ req' = [req EXCEPT ![r] = [IdleReq EXCEPT !.kind = "message", !.pc = "done", !.resp = 404]]
          /\ UNCHANGED <<messages, stored, nextMsg, got, emitted>>
     ELSE /\ nextMsg <= MaxMsgs
          /\ InsertMessage([mid |-> nextMsg, sid |-> sid, len |-> len, ts |-> ts])
          /\ Broadcast(nextMsg, sid, "http")
          /\ nextMsg' = nextMsg + 1
          /\ req' = [req EXCEPT ![r] = [IdleReq EXCEPT !.kind = "message", !.pc = "done", !.resp = 200,
                                                        !.steps = <<"store", "broadcast">>]]
  /\ UNCHANGED <<offGateway, inbox, rooms, sock>>

\* messages.get(sessionId): the array, in the order of the pushes
MemSessionMessages(sid) ==
  CHOOSE h \in Listings(SessionRows(sid)) : \A i, j \in 1..Len(h) : i < j => h[i] < h[j]

\* GET /api/sessions/:sessionId
MemGetSession(r, sid) ==
  /\ Free(r)
  /\ req' = [req EXCEPT ![r] =
       IF ~Exists(sid) THEN [IdleReq EXCEPT !.kind = "get", !.pc = "done", !.resp = 404]
       ELSE [IdleReq EXCEPT !.kind = "get", !.pc = "done", !.resp = 200, !.body = sessions[sid].status,
                            !.rows = MemSessionMessages(sid)]]
  /\ UNCHANGED <<sessions, blob, usedIds, now, cleanedCount, offSessions>>

\* the setInterval callback: every session that is active and older than
\* SESSION_TIMEOUT_MS is marked ended and then taken out of both Maps
MemCleanup ==
  /\ sessions' = [s \in SessionIds |-> IF s \in CleanupTargets THEN NoRow ELSE sessions[s]]
  /\ messages' = [m \in MsgIds |-> IF messages[m] \in CleanupTargets THEN NoSession ELSE messages[m]]
  /\ stored' = [m \in MsgIds |-> IF messages[m] \in CleanupTargets THEN NoMessage ELSE stored[m]]
  /\ cleanedCount' = Cardinality(CleanupTargets)
  /\ UNCHANGED <<blob, usedIds, now, req, accounts, pipeline, platform, nextMsg, rooms, sock, got, emitted, inbox>>

SockFree(c) == sock[c].pc = "idle"

\* where in a client's event log the session_messages events are
Backlogs(log) == {k \in 1..Len(log) : log[k].event = "session_messages"}

\* the `messages` of the frontend hook after the events of `log`:
\* socket.on('session_messages') replaces the list with the payload,
\* socket.on('new_message') appends the message
ClientMessages(log) ==
  LET k == IF Backlogs(log) = {} THEN 0 ELSE CHOOSE i \in Backlogs(log) : \A j \in Backlogs(log) : j <= i
      base == IF k = 0 THEN <<>> ELSE log[k].rows
  IN base \o [i \in 1..(Len(log) - k) |-> log[k + i].rows[1]]

\* socket.on('join_session'): `await database.getSession(sessionId)`; an unknown
\* id is answered with socket.emit('error', ...)
JoinSession(c, sid) ==
  /\ SockFree(c)
  /\ sock' = [sock EXCEPT ![c] =
       IF CanJoin(sid) THEN [IdleSock EXCEPT !.kind = "join_session", !.sid = sid, !.pc = "join"]
       ELSE [IdleSock EXCEPT !.kind = "join_session", !.sid = sid, !.out = "error"]]
  /\ UNCHANGED <<offGateway, inbox, req, messages, stored, nextMsg, rooms, got, emitted>>

\* socket.join(sessionId), then `await database.getSessionMessages(sessionId)`
JoinRoom_Replay(c) ==
  /\ sock[c].pc = "join"
  /\ rooms' = [rooms EXCEPT ![c] = @ \cup {sock[c].sid}]
  /\ got' = [got EXCEPT ![c] = @ \cup {e.mid : e \in {d \in emitted : d.sid = sock[c].sid}}]
  /\ sock' = [sock EXCEPT ![c].pc = "history"]
  /\ UNCHANGED <<offGateway, inbox, req, messages, stored, nextMsg, emitted>>

JoinRoom(c) ==
  /\ sock[c].pc = "join"
  /\ rooms' = [rooms EXCEPT ![c] = @ \cup {sock[c].sid}]
  /\ sock' = [sock EXCEPT ![c].pc = "history"]
  /\ UNCHANGED <<offGateway, inbox, req, messages, stored, nextMsg, got, emitted>>

\* the result of `await database.getSessionMessages(sessionId)` and
\* socket.emit('session_messages', sessionMessages); a client that listens for
\* the event (socket.on('session_messages', ...)) takes the payload in
SendHistory(c, listening) ==
  /\ sock[c].pc = "history"
  /\ listening => Cardinality(Backlogs(inbox[c])) < MaxJoins
  /\ sock' = [sock EXCEPT ![c] = [IdleSock EXCEPT !.out = "session_messages"]]
  /\ \E h \in getSessionMessages(sock[c].sid) :
       inbox' = IF listening
                THEN [inbox EXCEPT ![c] = Append(@, [event |-> "session_messages", rows |-> h])]
                ELSE inbox
  /\ UNCHANGED <<sessions, blob, usedIds, now, cleanedCount, accounts, pipeline, platform>>
  /\ UNCHANGED <<req, messages, stored, nextMsg, rooms, got, emitted>>

\* socket.on('voice_message'): parse, then `await database.getSession(...)`
VoiceMessage(c, shape, len, ts, sid) ==
  /\ SockFree(c)
  /\ IF ~safeParseVoiceMessage(shape, len, ts) \/ ~Exists(sid)
     THEN /\ sock' = [sock EXCEPT ![c] = [IdleSock EXCEPT !.kind = "voice_message", !.out = "error"]]
          /\ UNCHANGED nextMsg
     ELSE /\ nextMsg <= MaxMsgs
          /\ sock' = [sock EXCEPT ![c] = [IdleSock EXCEPT !.kind = "voice_message", !.sid = sid,
                                                           !.pc = "addMessage", !.mid = nextMsg,
                                                           !.len = len, !.ts = ts]]
          /\ nextMsg' = nextMsg + 1
  /\ UNCHANGED <<offGateway, inbox, req, messages, stored, rooms, got, emitted>>

\* `await database.addMessage(voiceMessage)` in the socket handler; a failed
\* INSERT reaches the catch, which emits 'error' to the socket
VoiceAddMessage(c) ==
  /\ sock[c].pc = "addMessage"
  /\ IF Exists(sock[c].sid)
     THEN /\ InsertMessage(sock[c])
          /\ sock' = [sock EXCEPT ![c].pc = "emit", ![c].len = 0, ![c].ts = NoTime]
     ELSE /\ sock' = [sock EXCEPT ![c] = [IdleSock EXCEPT !.kind = "voice_message", !.out = "error"]]
          /\ UNCHANGED <<messages, stored>>
  /\ UNCHANGED <<offGateway, inbox, req, nextMsg, rooms, got, emitted>>

\* socket.to(voiceMessage.sessionId).emit('new_message', voiceMessage)
VoiceEmit(c) ==
  /\ sock[c].pc = "emit"
  /\ Broadcast(sock[c].mid, sock[c].sid, c)
  /\ sock' = [sock EXCEPT ![c] = IdleSock]
  /\ UNCHANGED <<offGateway, inbox, req, messages, stored, nextMsg, rooms>>

\* ------------------------------------------------------ reading a session
\* GET /:sessionId, up to the result of `await database.getSession(sessionId)`:
\* null answers 404; a throw of getSession reaches the catch, which answers 500
GetSession(r, sid) ==
  /\ Free(r)
  /\ req' = [req EXCEPT ![r] =
       IF ~Exists(sid) THEN [IdleReq EXCEPT !.kind = "get", !.sid = sid, !.pc = "done", !.resp = 404]
       ELSE IF DecodeMetadata(blob[sid]) = "throws"
       THEN [IdleReq EXCEPT !.kind = "get", !.sid = sid, !.pc = "done", !.resp = 500]
       ELSE [IdleReq EXCEPT !.kind = "get", !.sid = sid, !.pc = "messages",
                            !.body = getSession(sid).status, !.meta = DecodeMetadata(blob[sid])]]
  /\ UNCHANGED <<sessions, blob, usedIds, now, cleanedCount, offSessions>>

\* a row of table sessions as another writer of the database file leaves it:
\* column metadata is declared JSON and the reader is handed its text, which
\* may be NULL or no JSON at all
ForeignWrite(sid, text) ==
  /\ Exists(sid)
  /\ blob' = [blob EXCEPT ![sid] = text]
  /\ UNCHANGED <<sessions, usedIds, now, cleanedCount, req, offSessions>>

\* `await database.getSessionMessages(sessionId)`, the statistics and res.json
GetSessionMessages(r) ==
  /\ req[r].kind = "get" /\ req[r].pc = "messages"
  /\ \E h \in getSessionMessages(req[r].sid) :
       req' = [req EXCEPT ![r].pc = "done", ![r].resp = 200, ![r].rows = h]
  /\ UNCHANGED <<sessions, blob, usedIds, now, cleanedCount, offSessions>>

\* --------------------------------------------------------- routes/users
Names == {"ann", "bob"}
Emails == {"a@x.org", "b@x.org"}

IdleUserReq == [pc |-> "idle", name |-> "", email |-> "", id |-> 0, resp |-> 0]

offAccounts == <<sessions, blob, usedIds, now, cleanedCount, req, gateway, pipeline, platform>>

\* CreateUserSchema: a non-empty name and a well-formed email
CreateUserSchema(name, email) == name # "" /\ email \in Emails

\* SELECT * FROM users WHERE email = ?
getUserByEmail_None(email) == {}

getUserByEmail(email) == {row \in users : row.email = email}

UserFree(u) == ureq[u].pc \in {"idle", "done"}

\* POST /api/users: validate, then `await database.getUserByEmail(email)`
PostUser(u, name, email) ==
  /\ UserFree(u)
  /\ IF ~CreateUserSchema(name, email)
     THEN /\ ureq' = [ureq EXCEPT ![u] = [IdleUserReq EXCEPT !.pc = "done", !.resp = 400]]
          /\ UNCHANGED nextUser
     ELSE IF getUserByEmail(email) # {}
     THEN /\ ureq' = [ureq EXCEPT ![u] = [IdleUserReq EXCEPT !.pc = "done", !.email = email, !.resp = 409]]
          /\ UNCHANGED nextUser
     ELSE /\ nextUser <= MaxUsers
          /\ ureq' = [ureq EXCEPT ![u] = [pc |-> "createUser", name |-> name, email |-> email,
                                          id |-> nextUser, resp |-> 0]]
          /\ nextUser' = nextUser + 1
  /\ UNCHANGED <<users, offAccounts>>

\* `await database.createUser(user)`: the INSERT and its analytics row in one
\* transaction.  users.email is UNIQUE: an INSERT of an email already stored
\* throws, the transaction is rolled back and the handler's catch answers 500.
CreateUserCommit(u) ==
  /\ ureq[u].pc = "createUser"
  /\ IF \E row \in users : row.email = ureq[u].email
     THEN /\ ureq' = [ureq EXCEPT ![u].pc = "done", ![u].resp = 500]
          /\ UNCHANGED users
     ELSE /\ users' = users \cup {[id |-> ureq[u].id, name |-> ureq[u].name, email |-> ureq[u].email]}
          /\ ureq' = [ureq EXCEPT ![u].pc = "done", ![u].resp = 201]
  /\ UNCHANGED <<nextUser, offAccounts>>

\* ------------------------------------------------ the enrichment pipeline
\* entities and memories are the lengths of the lists returned so far; `failed`
\* records that an extraction or a memory write of this task has thrown; `len`
\* is the length of the content the agent was given
IdleTask == [kind |-> "idle", pc |-> "idle", n |-> 0, i |-> 0, entities |-> 0, memories |-> 0,
             failed |-> FALSE, outcome |-> "none", resp |-> 0, steps |-> <<>>, len |-> 0]

offPipeline == <<sessions, blob, usedIds, now, cleanedCount, req, gateway, accounts, platform>>

TaskFree == task.pc \in {"idle", "done"}

\* AIIntegrationService.initialize(), at startup
initialize(mastraReady, mem0Ready) ==
  /\ task.kind = "idle"
  /\ isConfigured' = (mastraReady /\ mem0Ready)
  /\ UNCHANGED <<memStore, task, offPipeline>>

\* the outer catch of processMessage and of processTranscription:
\* `return { entities: [], memories: [] }`; processMessage's caller has its
\* result, the transcription route goes on to store the transcription
Caught(t) ==
  [t EXCEPT !.entities = 0, !.memories = 0, !.failed = TRUE,
            !.pc = IF t.kind = "processMessage" THEN "done" ELSE "storeTranscription",
            !.outcome = IF t.kind = "processMessage" THEN "resolved" ELSE @]

\* AIIntegrationService.processMessage(message), for a message in which
\* extraction finds n entities
ProcessMessage(n) ==
  /\ TaskFree
  /\ task' = IF ~isConfigured
             THEN [IdleTask EXCEPT !.kind = "processMessage", !.pc = "done", !.outcome = "resolved"]
             ELSE [IdleTask EXCEPT !.kind = "processMessage", !.pc = "extract", !.n = n]
  /\ UNCHANGED <<isConfigured, memStore, offPipeline>>

\* `await mastraLocalService.extractEntitiesFromMessage / FromText`
ExtractEntities(ok) ==
  /\ task.pc = "extract"
  /\ LET ran == [task EXCEPT !.steps = Append(@, "extract")] IN
       task' = IF ~ok THEN Caught(ran)
               ELSE [ran EXCEPT !.entities = task.n,
                                !.pc = IF task.kind = "transcription" THEN "transcriptionMemory"
                                       ELSE IF task.n > 0 THEN "entityMemory" ELSE "conversationMemory"]
  /\ UNCHANGED <<isConfigured, memStore, offPipeline>>

\* one turn of `for (const entity of mastraResult.entities)`: storeMemory in
\* its own try/catch, which logs a failure and goes on
StoreEntityMemory(ok) ==
  /\ task.pc = "entityMemory"
  /\ ok => memStore < MaxMemories
  /\ memStore' = IF ok THEN memStore + 1 ELSE memStore
  /\ task' = [task EXCEPT !.i = @ + 1,
                          !.memories = IF ok THEN @ + 1 ELSE @,
                          !.steps = IF ok THEN Append(@, "memory") ELSE @,
                          !.failed = IF ok THEN @ ELSE TRUE,
                          !.pc = IF task.i + 1 = task.n THEN "conversationMemory" ELSE @]
  /\ UNCHANGED <<isConfigured, offPipeline>>

\* the conversation memory, in its own try/catch, then the return
StoreConversationMemory_Skipped(ok) ==
  /\ task.pc = "conversationMemory"
  /\ task' = [task EXCEPT !.pc = "done", !.outcome = "resolved"]
  /\ UNCHANGED <<isConfigured, memStore, offPipeline>>

StoreConversationMemory(ok) ==
  /\ task.pc = "conversationMemory"
  /\ ok => memStore < MaxMemories
  /\ memStore' = IF ok THEN memStore + 1 ELSE memStore
  /\ task' = [task EXCEPT !.memories = IF ok THEN @ + 1 ELSE @,
                          !.steps = IF ok THEN Append(@, "memory") ELSE @,
                          !.failed = IF ok THEN @ ELSE TRUE,
                          !.pc = "done", !.outcome = "resolved"]
  /\ UNCHANGED <<isConfigured, offPipeline>>

\* POST /api/ai/process-transcription: the 400 check, then
\* `await aiIntegrationService.processTranscription(transcriptionMessage)`
PostTranscription(valid, n) ==
  /\ TaskFree
  /\ task' = IF ~valid THEN [IdleTask EXCEPT !.kind = "transcription", !.pc = "done", !.resp = 400]
             ELSE IF ~isConfigured THEN [IdleTask EXCEPT !.kind = "transcription", !.pc = "storeTranscription"]
             ELSE [IdleTask EXCEPT !.kind = "transcription", !.pc = "extract", !.n = n]
  /\ UNCHANGED <<isConfigured, memStore, offPipeline>>

\* processTranscription's `await mem0Service.storeMemory(transcriptionMemory)`,
\* inside the one try/catch of the method
StoreTranscriptionMemory(ok) ==
  /\ task.pc = "transcriptionMemory"
  /\ ok => memStore < MaxMemories
  /\ memStore' = IF ok THEN memStore + 1 ELSE memStore
  /\ task' = IF ok THEN [task EXCEPT !.memories = 1, !.steps = Append(@, "memory"), !.pc = "storeTranscription"]
             ELSE Caught(task)
  /\ UNCHANGED <<isConfigured, offPipeline>>

\* `await database.storeTranscriptionMessage(transcriptionMessage)`: no
\* DatabaseService of the repository defines this method, so the call throws and
\* the route's catch answers 500; the emit and the 200 after it are not reached
StoreTranscription ==
  /\ task.pc = "storeTranscription"
  /\ task' = [task EXCEPT !.pc = "done", !.resp = 500]
  /\ UNCHANGED <<isConfigured, memStore, offPipeline>>

\* createVoiceAgent(deps).processMessage(message), for a message of `len`
\* characters holding n email addresses and URLs
AgentProcessMessage_NoLimit(len, n) ==
  /\ TaskFree
  /\ task' = IF len = 0
             THEN [IdleTask EXCEPT !.kind = "agent", !.pc = "done", !.outcome = "resolved", !.len = len]
             ELSE [IdleTask EXCEPT !.kind = "agent", !.pc = "generateText", !.n = n, !.len = len]
  /\ UNCHANGED <<isConfigured, memStore, offPipeline>>

AgentProcessMessage(len, n) ==
  /\ TaskFree
  /\ task' = IF len = 0 \/ len > MAX_MESSAGE_LENGTH
             THEN [IdleTask EXCEPT !.kind = "agent", !.pc = "done", !.outcome = "resolved", !.len = len]
             ELSE [IdleTask EXCEPT !.kind = "agent", !.pc = "generateText", !.n = n, !.len = len]
  /\ UNCHANGED <<isConfigured, memStore, offPipeline>>

\* `await deps.llm.generateText(...)`, then the two regular expressions; no
\* try/catch: a failure rejects the promise processMessage returned
AgentGenerateText(ok) ==
  /\ task.pc = "generateText"
  /\ LET ran == [task EXCEPT !.steps = Append(@, "extract")] IN
       task' = IF ok THEN [ran EXCEPT !.entities = task.n, !.pc = "storeMemory"]
               ELSE [ran EXCEPT !.failed = TRUE, !.pc = "done", !.outcome = "rejected"]
  /\ UNCHANGED <<isConfigured, memStore, offPipeline>>

\* `await deps.memory.storeMemory(baseMemory)`, then the return
AgentStoreMemory(ok) ==
  /\ task.pc = "storeMemory"
  /\ ok => memStore < MaxMemories
  /\ memStore' = IF ok THEN memStore + 1 ELSE memStore
  /\ task' = IF ok THEN [task EXCEPT !.memories = 1, !.steps = Append(@, "memory"), !.pc = "done",
                                     !.outcome = "resolved"]
             ELSE [task EXCEPT !.failed = TRUE, !.pc = "done", !.outcome = "rejected"]
  /\ UNCHANGED <<isConfigured, offPipeline>>

\* ------------------------------------------------------------- startup
\* the process once `server.listen` has run, and what it is before: the
\* environment not yet validated, validated, or the process gone
Serving == [phase |-> "serving", livekit |-> TRUE]

offPlatform == <<sessions, blob, usedIds, now, cleanedCount, req, gateway, accounts, pipeline, consumed, doc, pool>>

\* config/env: envSchema.safeParse(process.env); LIVEKIT_API_KEY and
\* LIVEKIT_API_SECRET are z.string().min(1), the AI keys are optional
LoadEnv_Lenient ==
  /\ proc.phase = "loading"
  /\ proc' = [proc EXCEPT !.phase = "validated"]
  /\ UNCHANGED offPlatform

LoadEnv ==
  /\ proc.phase = "loading"
  /\ proc' = [proc EXCEPT !.phase = IF proc.livekit THEN "validated" ELSE "exited"]
  /\ UNCHANGED offPlatform

\* the rest of the server module: database.initialize(), the middleware and
\* route registrations, server.listen
Listen ==
  /\ proc.phase = "validated"
  /\ proc' = [proc EXCEPT !.phase = "serving"]
  /\ UNCHANGED offPlatform

\* ------------------------------------------------------ entity extraction
\* A text is a sequence of words separated by single spaces. Each word is of
\* one class, named after what the patterns of the extraction services make of
\* it: "word" (lower case: me, visit), "Cap" (capitalised: Contact, John),
\* "Inc" (a capitalised company suffix), "email" (a@b.com), "url"
\* (https://example.com), "phone" (555-123-4567), "date" (2024-01-05).
Tokens == {"word", "Cap", "Inc", "email", "url", "phone", "date"}

\* 'Contact me at a@b.com and visit https://example.com'
ExampleText == <<"Cap", "word", "word", "email", "word", "word", "url">>

Texts == UNION {[1..n -> Tokens] : n \in 0..MaxTokens} \cup {ExampleText}

NoDoc == [text |-> <<>>, path |-> "none", entities |-> <<>>]

\* [A-Z][a-z]+
CapLike_IgnoringCase(t) == t \in {"Cap", "Inc", "word"}

CapLike(t) == t \in {"Cap", "Inc"}

\* text.match(/\b[A-Z][a-z]+ [A-Z][a-z]+\b/g): the matches from word i on, leftmost
\* first and not overlapping, each given by the positions of its words
RECURSIVE NameMatches(_, _)
NameMatches(text, i) ==
  IF i + 1 > Len(text) THEN <<>>
  ELSE IF CapLike(text[i]) /\ CapLike(text[i + 1]) THEN <<(<<i, i + 1>>)>> \o NameMatches(text, i + 2)
  ELSE NameMatches(text, i + 1)

\* text.match(/\b[A-Z][a-z]+ (Inc|Corp|LLC|Ltd|Company|Corporation)\b/g)
RECURSIVE OrgMatches(_, _)
OrgMatches(text, i) ==
  IF i + 1 > Len(text) THEN <<>>
  ELSE IF CapLike(text[i]) /\ text[i + 1] = "Inc" THEN <<(<<i, i + 1>>)>> \o OrgMatches(text, i + 2)
  ELSE OrgMatches(text, i + 1)

\* the matches of a pattern that takes one word of class `class` and no other:
\* the e-mail, URL, phone and date patterns
RECURSIVE WordMatches(_, _, _)
WordMatches(text, class, i) ==
  IF i > Len(text) THEN <<>>
  ELSE IF text[i] = class THEN <<(<<i, i>>)>> \o WordMatches(text, class, i + 1)
  ELSE WordMatches(text, class, i + 1)

\* matches.forEach(m => entities.push({ value: m, type, confidence })), with
\* the confidence in tenths
Entities(matches, type, confidence) ==
  [k \in 1..Len(matches) |-> [type |-> type, value |-> matches[k], confidence |-> confidence]]

\* MastraLocalService.extractEntitiesFromMessage
ExtractLocal(text) ==
  Entities(NameMatches(text, 1), "person", 8)
    \o Entities(OrgMatches(text, 1), "organization", 7)
    \o Entities(WordMatches(text, "email", 1), "email", 9)
    \o Entities(WordMatches(text, "url", 1), "url", 9)
    \o Entities(WordMatches(text, "phone", 1), "phone", 8)
    \o Entities(WordMatches(text, "date", 1), "date", 7)

\* createVoiceAgent(deps).processMessage: emailRegex and urlRegex
ExtractAgent(text) ==
  Entities(WordMatches(text, "email", 1), "email", 9)
    \o Entities(WordMatches(text, "url", 1), "url", 8)

\* MastraAgentService.simpleEntityExtraction
ExtractSimple(text) ==
  Entities(WordMatches(text, "email", 1), "email", 9)
    \o Entities(WordMatches(text, "url", 1), "url", 9)

Paths == {"local", "agent", "simple"}

ExtractBy(path, text) ==
  CASE path = "local" -> ExtractLocal(text)
    [] path = "agent" -> ExtractAgent(text)
    [] path = "simple" -> ExtractSimple(text)

\* one of the services is given the text and returns its entities
Extract(path) ==
  /\ doc.path = "none"
  /\ doc' = [doc EXCEPT !.path = path, !.entities = ExtractBy(path, doc.text)]
  /\ UNCHANGED <<sessions, blob, usedIds, now, cleanedCount, req, gateway, accounts, pipeline, proc, consumed, pool>>

\* ---------------------------------------------------------- rate limiting
\* new RateLimiterMemory({ points, duration }): one counter per key
Points(l) == IF l = "general" THEN RATE_LIMIT_POINTS ELSE TOKEN_RATE_LIMIT_POINTS

\* consume(key) rejects once the key has used up its points in the window
Exhausted(l, ip) == consumed[ip][l] >= Points(l)

\* consume(key): one more point on the key's counter; the model stops
\* counting at the limit
Consume(c, l, ip) == [c EXCEPT ![ip][l] = IF @ < Points(l) THEN @ + 1 ELSE @]

\* the key's window of `duration` seconds runs out and its counter starts afresh
WindowExpires(ip, l) ==
  /\ consumed[ip][l] > 0
  /\ consumed' = [consumed EXCEPT ![ip][l] = 0]
  /\ UNCHANGED <<sessions, blob, usedIds, now, cleanedCount, req, gateway, accounts, pipeline, proc, doc, pool>>

\* a request from `ip` to the server file: the rate limiting middleware, then
\* GET /health, or POST /api/sessions up to `await createSession(userId)`
LimitedRequest(r, ip, route) ==
  /\ Free(r)
  /\ IF Exhausted("general", ip)
     THEN /\ req' = [req EXCEPT ![r] = [IdleReq EXCEPT !.kind = route, !.ip = ip, !.pc = "done", !.resp = 429]]
          /\ UNCHANGED <<consumed, usedIds>>
     ELSE IF route = "health"
     THEN /\ consumed' = Consume(consumed, "general", ip)
          /\ \E ok \in BOOLEAN :
               req' = [req EXCEPT ![r] = [IdleReq EXCEPT !.kind = route, !.ip = ip, !.pc = "done",
                                                          !.resp = IF ok THEN 200 ELSE 500]]
          /\ UNCHANGED usedIds
     ELSE IF Exhausted("token", ip)
     THEN /\ consumed' = Consume(consumed, "general", ip)
          /\ req' = [req EXCEPT ![r] = [IdleReq EXCEPT !.kind = route, !.ip = ip, !.pc = "done", !.resp = 429]]
          /\ UNCHANGED usedIds
     ELSE /\ consumed' = Consume(Consume(consumed, "general", ip), "token", ip)
          /\ \E userId \in BOOLEAN :
               IF ~userId
               THEN /\ req' = [req EXCEPT ![r] = [IdleReq EXCEPT !.kind = route, !.ip = ip, !.pc = "done",
                                                                    !.resp = 400]]
                    /\ UNCHANGED usedIds
               ELSE \E id \in SessionIds \ usedIds :
                    /\ usedIds' = usedIds \cup {id}
                    /\ req' = [req EXCEPT ![r] = [IdleReq EXCEPT !.kind = route, !.ip = ip, !.pc = "createSession",
                                                                    !.sid = id,
                                                                    !.upd = [status |-> "active", endTime |-> now]]]
  /\ UNCHANGED <<sessions, blob, now, cleanedCount, gateway, accounts, pipeline, proc, doc, pool>>

\* `await database.createSession(session)`, then res.json({ session }); the
\* handler's `catch { ... res.status(429) }` takes every throw of its try block
CreateSessionLimited(r, ok) ==
  /\ req[r].pc = "createSession"
  /\ IF ok
     THEN /\ sessions' = [sessions EXCEPT ![req[r].sid] =
                            [status |-> "active", startTime |-> req[r].upd.endTime, endTime |-> NoTime]]
          /\ blob' = [blob EXCEPT ![req[r].sid] = JSONstringify("empty")]
          /\ req' = [req EXCEPT ![r].pc = "done", ![r].resp = 200, ![r].steps = Append(@, "store"),
                                 ![r].body = "active", ![r].upd = NoUpdates]
     ELSE /\ req' = [req EXCEPT ![r].pc = "done", ![r].resp = 429, ![r].upd = NoUpdates]
          /\ UNCHANGED <<sessions, blob>>
  /\ UNCHANGED <<usedIds, now, cleanedCount, offSessions>>

\* ------------------------------------------------ the connection pool
\* executeTransaction on the round-robin pool.  A connection carries at most
\* one open transaction; a statement run on a connection joins the transaction
\* open on it, whoever began it, and is durable at once when none is open.
Conns == 0..(MaxConnections - 1)
Txs == {"t1", "t2"}                 \* executeTransaction calls in flight
Stmts == {1, 2}                     \* the statements of one transaction's operations
NoTx == "none"

IdleTx == [pc |-> "idle", conn |-> 0, ok |-> FALSE]

IdlePool == [idx |-> 0,
             owner |-> [c \in Conns |-> NoTx],
             pending |-> [c \in Conns |-> {}],
             durable |-> {},
             tx |-> [t \in Txs |-> IdleTx]]

\* what the pool's actions leave alone
offPool == <<sessions, blob, usedIds, now, cleanedCount, req, gateway, accounts, pipeline, proc, consumed, doc>>

\* getConnection(): the connection at the index; the index moves on
getConnection == pool.idx

NextIndex == (pool.idx + 1) % MaxConnections

\* executeTransaction: getConnection(), then `BEGIN TRANSACTION` on it; BEGIN
\* fails on a connection whose transaction is open, and the catch goes on to
\* ROLLBACK
BeginTransaction(t) ==
  /\ pool.tx[t].pc = "idle"
  /\ pool' = IF pool.owner[getConnection] = NoTx
             THEN [pool EXCEPT !.idx = NextIndex, !.owner[getConnection] = t,
                               !.tx[t] = [pc |-> "stmt1", conn |-> getConnection, ok |-> FALSE]]
             ELSE [pool EXCEPT !.idx = NextIndex,
                               !.tx[t] = [pc |-> "rollback", conn |-> getConnection, ok |-> FALSE]]
  /\ UNCHANGED offPool

\* one executeStatement(sql, params, connection) of the operations
TxStatement(t) ==
  /\ pool.tx[t].pc \in {"stmt1", "stmt2"}
  /\ LET c == pool.tx[t].conn
         k == IF pool.tx[t].pc = "stmt1" THEN 1 ELSE 2
         after == IF k = 1 THEN "stmt2" ELSE "commit"
     IN pool' = IF pool.owner[c] # NoTx
                THEN [pool EXCEPT !.pending[c] = @ \cup {<<t, k>>}, !.tx[t].pc = after]
                ELSE [pool EXCEPT !.durable = @ \cup {<<t, k>>}, !.tx[t].pc = after]
  /\ UNCHANGED offPool

\* `COMMIT` on the connection: makes durable whatever its open transaction
\* holds; fails when no transaction is open, and the catch goes on to ROLLBACK
TxCommit(t) ==
  /\ pool.tx[t].pc = "commit"
  /\ LET c == pool.tx[t].conn
     IN pool' = IF pool.owner[c] # NoTx
                THEN [pool EXCEPT !.durable = @ \cup pool.pending[c], !.pending[c] = {},
                                  !.owner[c] = NoTx, !.tx[t].pc = "done", !.tx[t].ok = TRUE]
                ELSE [pool EXCEPT !.tx[t].pc = "rollback"]
  /\ UNCHANGED offPool

\* the catch: `ROLLBACK` on the connection discards whatever its open
\* transaction holds (a failure of ROLLBACK is logged); the error is rethrown
TxRollback(t) ==
  /\ pool.tx[t].pc = "rollback"
  /\ LET c == pool.tx[t].conn
     IN pool' = [pool EXCEPT !.pending[c] = {}, !.owner[c] = NoTx,
                             !.tx[t].pc = "done", !.tx[t].ok = FALSE]
  /\ UNCHANGED offPool

\* executeQuery(sql) with no connection given (getSession and the other
\* reads): getConnection() moves the index
PoolQuery ==
  /\ pool' = [pool EXCEPT !.idx = NextIndex]
  /\ UNCHANGED offPool

\* ------------------------------------------------------------------ spec
InitStore ==
  /\ sessions = [s \in SessionIds |-> NoRow]
  /\ blob = [s \in SessionIds |-> "null"]
  /\ usedIds = {}
  /\ now = 0
  /\ cleanedCount = NoTime
  /\ req = [r \in Reqs |-> IdleReq]
  /\ messages = [m \in MsgIds |-> NoSession]
  /\ stored = [m \in MsgIds |-> NoMessage]
  /\ nextMsg = 1
  /\ rooms = [c \in Clients |-> {}]
  /\ sock = [c \in Clients |-> IdleSock]
  /\ got = [c \in Clients |-> {}]
  /\ emitted = {}
  /\ inbox = [c \in Clients |-> <<>>]
  /\ users = {}
  /\ nextUser = 1
  /\ ureq = [u \in Reqs |-> IdleUserReq]
  /\ isConfigured = FALSE
  /\ memStore = 0
  /\ task = IdleTask
  /\ consumed = [ip \in IPs |-> [l \in Limiters |-> 0]]
  /\ pool = IdlePool

\* the server is up
Init == InitStore /\ proc = Serving /\ doc = NoDoc

\* the process is being started, with or without its LiveKit credentials
InitStartup ==
  InitStore /\ doc = NoDoc /\ proc \in {[phase |-> "loading", livekit |-> l] : l \in BOOLEAN}

\* a text is about to be given to entity extraction
InitExtract ==
  InitStore /\ proc = Serving /\ doc \in {[NoDoc EXCEPT !.text = t] : t \in Texts}

\* the handlers of routes/sessions.ts, served on the request slots R
SessionRoutes(R) ==
  \/ \E r \in R : PostSession(r, "undefined")
  \/ \E r \in R : CreateSessionCommit(r)
  \/ \E r \in R, op \in {"end", "pause", "resume"}, sid \in SessionIds : PostTransition(r, op, sid)
  \/ \E r \in R, sid \in SessionIds, st \in Statuses \cup {NoStatus, "bogus"}, et \in {now, NoTime} :
       PutSession(r, sid, st, et)
  \/ \E r \in R : UpdateStatement(r)
  \/ \E r \in R : Reread(r)
  \/ \E r \in R, sid \in SessionIds : DeleteSession(r, sid)
  \/ \E r \in R : DeleteSessionCommit(r)

\* Session lifecycle: one request at a time, the clock and the cleanup timer
Next ==
  \/ Tick
  \/ cleanupExpiredSessions
  \/ SessionRoutes(Solo)

\* Concurrent session requests, interleaving at their awaits
NextRace == SessionRoutes(Reqs)

\* Messages and the realtime gateway: one HTTP request at a time, two sockets
NextGateway ==
  \/ \E r \in Solo : PostSession(r, "undefined")
  \/ \E r \in Solo : CreateSessionCommit(r)
  \/ \E r \in Solo, shape \in Shapes, sid \in SessionIds : PostMessage(r, shape, 1, now, sid)
  \/ \E r \in Solo : AddMessageCommit(r)
  \/ \E r \in Solo : EmitNewMessage(r, FALSE)
  \/ \E c \in Clients, sid \in SessionIds : JoinSession(c, sid)
  \/ \E c \in Clients : JoinRoom(c)
  \/ \E c \in Clients : SendHistory(c, FALSE)
  \/ \E c \in Clients, shape \in Shapes, sid \in SessionIds : VoiceMessage(c, shape, 1, now, sid)
  \/ \E c \in Clients : VoiceAddMessage(c)
  \/ \E c \in Clients : VoiceEmit(c)

\* The HTTP boundary: session and message requests one at a time, one socket
\* listening
NextHttp ==
  \/ \E r \in Solo : PostSession(r, "undefined")
  \/ \E r \in Solo : CreateSessionCommit(r)
  \/ \E r \in Solo, sid \in SessionIds, st \in Statuses \cup {NoStatus, "bogus"}, et \in {now, NoTime} :
       PutSession(r, sid, st, et)
  \/ \E r \in Solo : UpdateStatement(r)
  \/ \E r \in Solo : Reread(r)
  \/ \E r \in Solo, shape \in Shapes, sid \in SessionIds : PostMessage(r, shape, 1, now, sid)
  \/ \E r \in Solo, shape \in Shapes, sid \in SessionIds : PostMessageV1(r, shape, 1, now, sid)
  \/ \E r \in Solo : AddMessageCommit(r)
  \/ \E r \in Solo : EmitNewMessage(r, FALSE)
  \/ \E c \in Listener, sid \in SessionIds : JoinSession(c, sid)
  \/ \E c \in Listener : JoinRoom(c)
  \/ \E c \in Listener : SendHistory(c, FALSE)

Spec == Init /\ [][Next]_vars
SpecGateway == Init /\ [][NextGateway]_vars
SpecHttp == Init /\ [][NextHttp]_vars

\* Concurrent create-user requests, interleaving at their awaits
NextUsers ==
  \/ \E u \in Reqs, name \in Names \cup {""}, email \in Emails \cup {"not-an-email"} : PostUser(u, name, email)
  \/ \E u \in Reqs : CreateUserCommit(u)

SpecUsers == Init /\ [][NextUsers]_vars

\* Handling inbound messages: the message endpoint, the transcription route
\* and the two enrichment services
NextPipeline ==
  \/ \E r \in Solo : PostSession(r, "undefined")
  \/ \E r \in Solo : CreateSessionCommit(r)
  \/ \E r \in Solo, shape \in Shapes, sid \in SessionIds : PostMessage(r, shape, 1, now, sid)
  \/ \E r \in Solo : AddMessageCommit(r)
  \/ \E r \in Solo : EmitNewMessage(r, FALSE)
  \/ \E mastraReady \in BOOLEAN, mem0Ready \in BOOLEAN : initialize(mastraReady, mem0Ready)
  \/ \E n \in 0..MaxEntities : ProcessMessage(n)
  \/ \E ok \in BOOLEAN : ExtractEntities(ok)
  \/ \E ok \in BOOLEAN : StoreEntityMemory(ok)
  \/ \E ok \in BOOLEAN : StoreConversationMemory(ok)
  \/ \E valid \in BOOLEAN, n \in 0..MaxEntities : PostTranscription(valid, n)
  \/ \E ok \in BOOLEAN : StoreTranscriptionMemory(ok)
  \/ StoreTranscription
  \/ \E len \in 0..(MAX_MESSAGE_LENGTH + 1), n \in 0..MaxEntities : AgentProcessMessage(len, n)
  \/ \E ok \in BOOLEAN : AgentGenerateText(ok)
  \/ \E ok \in BOOLEAN : AgentStoreMemory(ok)

SpecPipeline == Init /\ [][NextPipeline]_vars

\* the bodies a client sends here: a full voice message, a creation request
\* or neither; empty, short or too long; stamped or not (NoTime)
SentShapes == {"voice", "createVoice", "invalid"}
Lens == {0, 1, MAX_MESSAGE_LENGTH + 1}
Stamps == 0..MaxTime \cup {NoTime}

\* Message requests of any length, one at a time
NextMessages ==
  \/ \E r \in Solo : PostSession(r, "undefined")
  \/ \E r \in Solo : CreateSessionCommit(r)
  \/ \E r \in Solo, shape \in SentShapes, len \in Lens, ts \in {now, NoTime}, sid \in SessionIds :
       PostMessage(r, shape, len, ts, sid)
  \/ \E r \in Solo, shape \in SentShapes, len \in Lens, ts \in {now, NoTime}, sid \in SessionIds :
       PostMessageV1(r, shape, len, ts, sid)
  \/ \E r \in Solo : AddMessageCommit(r)
  \/ \E r \in Solo : EmitNewMessage(r, FALSE)

\* Concurrent message requests with timestamps of the client's choosing
NextOrder ==
  \/ \E r \in Solo : PostSession(r, "undefined")
  \/ \E r \in Solo : CreateSessionCommit(r)
  \/ \E r \in Reqs, ts \in Stamps, sid \in SessionIds : PostMessage(r, "voice", 1, ts, sid)
  \/ \E r \in Reqs, ts \in Stamps, sid \in SessionIds : PostMessageV1(r, "createVoice", 1, ts, sid)
  \/ \E r \in Reqs : AddMessageCommit(r)
  \/ \E r \in Reqs : EmitNewMessage(r, FALSE)
  \/ \E r \in Reqs, sid \in SessionIds : GetSession(r, sid)
  \/ \E r \in Reqs : GetSessionMessages(r)

SpecOrder == Init /\ [][NextOrder]_vars

\* The server file behind its rate limiters: requests from two addresses, the
\* windows running out, and one socket sending voice messages
NextLimit ==
  \/ \E r \in Solo, ip \in IPs, route \in {"health", "sessions"} : LimitedRequest(r, ip, route)
  \/ \E r \in Solo, ok \in BOOLEAN : CreateSessionLimited(r, ok)
  \/ \E ip \in IPs, l \in Limiters : WindowExpires(ip, l)
  \/ \E c \in Listener, shape \in Shapes, sid \in SessionIds : VoiceMessage(c, shape, 1, now, sid)
  \/ \E c \in Listener : VoiceAddMessage(c)
  \/ \E c \in Listener : VoiceEmit(c)

SpecLimit == Init /\ [][NextLimit]_vars

\* Entity extraction, by each of the pattern-matching services, of every text
NextExtract == \E path \in Paths : Extract(path)

SpecExtract == InitExtract /\ [][NextExtract]_vars

\* The process from its start: requests and enrichment are served once it listens
NextStartup ==
  \/ LoadEnv
  \/ Listen
  \/ proc.phase = "serving" /\ \E mastraReady \in BOOLEAN, mem0Ready \in BOOLEAN : initialize(mastraReady, mem0Ready)
  \/ proc.phase = "serving" /\ \E r \in Solo : PostSession(r, "undefined")
  \/ proc.phase = "serving" /\ \E r \in Solo : CreateSessionCommit(r)
  \/ proc.phase = "serving" /\ \E n \in 0..MaxEntities : ProcessMessage(n)
  \/ proc.phase = "serving" /\ \E ok \in BOOLEAN : ExtractEntities(ok)
  \/ proc.phase = "serving" /\ \E ok \in BOOLEAN : StoreEntityMemory(ok)
  \/ proc.phase = "serving" /\ \E ok \in BOOLEAN : StoreConversationMemory(ok)

SpecStartup == InitStartup /\ [][NextStartup]_vars

\* Sessions written with every kind of metadata, rows left by other writers,
\* and the requests that read them back
NextCodec ==
  \/ Tick
  \/ \E r \in Solo, meta \in Metas : PostSession(r, meta)
  \/ \E r \in Solo : CreateSessionCommit(r)
  \/ \E sid \in SessionIds, text \in {"null", "garbage"} : ForeignWrite(sid, text)
  \/ \E r \in Solo, sid \in SessionIds : GetSession(r, sid)
  \/ \E r \in Solo : GetSessionMessages(r)

SpecCodec == Init /\ [][NextCodec]_vars

\* The in-memory server: its HTTP endpoints and its cleanup interval
NextMemory ==
  \/ Tick
  \/ MemCleanup
  \/ \E r \in Solo : MemPostSession(r)
  \/ \E r \in Solo, shape \in {"voice", "invalid"}, sid \in SessionIds : MemPostMessage(r, shape, 1, now, sid)
  \/ \E r \in Solo, sid \in SessionIds : MemGetSession(r, sid)

SpecMemory == Init /\ [][NextMemory]_vars

\* One client of the frontend hook joining sessions while messages are posted
\* to either message endpoint
NextClient ==
  \/ \E r \in Solo : PostSession(r, "undefined")
  \/ \E r \in Solo : CreateSessionCommit(r)
  \/ \E r \in Solo, sid \in SessionIds : PostMessage(r, "voice", 1, now, sid)
  \/ \E r \in Solo, sid \in SessionIds : PostMessageV1(r, "createVoice", 1, now, sid)
  \/ \E r \in Solo : AddMessageCommit(r)
  \/ \E r \in Solo : EmitNewMessage(r, TRUE)
  \/ \E c \in Listener, sid \in SessionIds : JoinSession(c, sid)
  \/ \E c \in Listener : JoinRoom(c)
  \/ \E c \in Listener : SendHistory(c, TRUE)

SpecClient == Init /\ [][NextClient]_vars

\* Messages for sessions that can be ended: the end route beside the three
\* ways a message is submitted
NextEnded ==
  \/ \E r \in Solo : PostSession(r, "undefined")
  \/ \E r \in Solo : CreateSessionCommit(r)
  \/ \E r \in Solo, sid \in SessionIds : PostTransition(r, "end", sid)
  \/ \E r \in Solo : UpdateStatement(r)
  \/ \E r \in Solo : Reread(r)
  \/ \E r \in Solo, sid \in SessionIds : PostMessage(r, "voice", 1, now, sid)
  \/ \E r \in Solo, sid \in SessionIds : PostMessageV1(r, "createVoice", 1, now, sid)
  \/ \E r \in Solo : AddMessageCommit(r)
  \/ \E r \in Solo : EmitNewMessage(r, FALSE)
  \/ \E c \in Listener, sid \in SessionIds : VoiceMessage(c, "voice", 1, now, sid)
  \/ \E c \in Listener : VoiceAddMessage(c)
  \/ \E c \in Listener : VoiceEmit(c)

SpecEnded == Init /\ [][NextEnded]_vars

\* Message submissions racing deletes of their session: two requests in flight
NextOrphans ==
  \/ \E r \in Reqs : PostSession(r, "undefined")
  \/ \E r \in Reqs : CreateSessionCommit(r)
  \/ \E r \in Reqs, sid \in SessionIds : DeleteSession(r, sid)
  \/ \E r \in Reqs : DeleteSessionCommit(r)
  \/ \E r \in Reqs, sid \in SessionIds : PostMessageV1(r, "createVoice", 1, now, sid)
  \/ \E r \in Reqs : AddMessageCommit(r)

SpecOrphans == Init /\ [][NextOrphans]_vars

\* Store transactions in flight together on the pool, beside reads
NextPool ==
  \/ \E t \in Txs : BeginTransaction(t)
  \/ \E t \in Txs : TxStatement(t)
  \/ \E t \in Txs : TxCommit(t)
  \/ \E t \in Txs : TxRollback(t)
  \/ PoolQuery

SpecPool == Init /\ [][NextPool]_vars

\* The cleanup timer beside the session requests: passes may throw
NextTimer ==
  \/ Tick
  \/ \E ok \in BOOLEAN : CleanupTimer(ok)
  \/ \E r \in Solo : PostSession(r, "undefined")
  \/ \E r \in Solo : CreateSessionCommit(r)
  \/ \E r \in Solo, op \in {"end", "pause", "resume"}, sid \in SessionIds : PostTransition(r, op, sid)
  \/ \E r \in Solo : UpdateStatement(r)
  \/ \E r \in Solo : Reread(r)

\* the interval is never cleared, so the timer keeps firing, and the store
\* does not fail for ever: a pass that has something to end is eventually run
\* to its commit
SpecTimer == Init /\ [][NextTimer]_vars /\ WF_vars(CleanupTimer(TRUE))

\* Clients that listen for the backlog joining while messages are posted
NextJoin ==
  \/ \E r \in Solo : PostSession(r, "undefined")
  \/ \E r \in Solo : CreateSessionCommit(r)
  \/ \E r \in Solo, sid \in SessionIds : PostMessage(r, "voice", 1, now, sid)
  \/ \E r \in Solo : AddMessageCommit(r)
  \/ \E r \in Solo : EmitNewMessage(r, FALSE)
  \/ \E c \in Clients, sid \in SessionIds : JoinSession(c, sid)
  \/ \E c \in Clients : JoinRoom(c)
  \/ \E c \in Clients : SendHistory(c, TRUE)

SpecJoin == Init /\ [][NextJoin]_vars

SpecMessages == Init /\ [][NextMessages]_vars
SpecRace == Init /\ [][NextRace]_vars

\* ------------------------------------------------------------------ claims
Transitions == {"end", "pause", "resume"}

\* C1: in every reachable state every stored session has status 'ended' if and
\* only if its endTime is set.
C1_EndedIffEndTime ==
  \A s \in SessionIds :
    Exists(s) => (sessions[s].status = "ended" <=> sessions[s].endTime # NoTime)

\* C2: an end/pause/resume request is answered 404 for an unknown id, 400 with
\* the store untouched when the session already has the requested status, and
\* otherwise 200 with the session in the requested status.
C2_TransitionResponses ==
  \A r \in Reqs :
    (req[r].pc = "done" /\ req[r].kind \in Transitions) =>
      \/ req[r].resp = 404 /\ req[r].steps = <<>>
      \/ req[r].resp = 400 /\ req[r].steps = <<>>
      \/ req[r].resp = 200 /\ req[r].body = TargetOf(req[r].kind)

C5_BroadcastToAllJoined ==
  [][\A e \in emitted' \ emitted : \A c \in Clients :
        (e.mid \in got'[c]) <=> (e.sid \in rooms[c])]_vars

\* C5 (amended): a broadcast from the HTTP endpoint is delivered to exactly the
\* sockets joined to S; a broadcast from a voice_message event is delivered to
\* exactly the sockets joined to S other than the socket that sent the event.
C5_BroadcastToOthersJoined ==
  [][\A e \in emitted' \ emitted : \A c \in Clients :
        (e.mid \in got'[c]) <=> (e.sid \in rooms[c] /\ c # e.from)]_vars

\* a joined socket sent a voice_message: another joined socket received it,
\* the sender did not; and an HTTP message reached a whole room of two
C5_Witness ==
  /\ \E e \in emitted :
       /\ e.from \in e.room /\ e.mid \notin got[e.from]
       /\ \E c \in e.room \ {e.from} : e.mid \in got[c]
  /\ \E e \in emitted :
       e.from = "http" /\ e.room = Clients /\ \A c \in Clients : e.mid \in got[c]

\* C6: when extraction or a memory write fails while a message is enriched,
\* the failure is swallowed and the entity and memory lists returned are empty.
C6_FailureGivesEmptyLists ==
  (task.pc = "done" /\ task.failed /\ task.kind \in {"processMessage", "agent"}) =>
     (task.outcome = "resolved" /\ task.entities = 0 /\ task.memories = 0)

\* b never happens in `steps` unless a has happened before it
Precedes(steps, a, b) ==
  \A i \in 1..Len(steps) : steps[i] = b => \E j \in 1..(i - 1) : steps[j] = a

\* the steps of the handlers that take an inbound message: the message
\* endpoint and the transcription route
InboundSteps == {req[r].steps : r \in {q \in Reqs : req[q].kind = "message"}}
                  \cup (IF task.kind = "transcription" THEN {task.steps} ELSE {})

C8_DuplicateEmailConflict ==
  [][\A u \in Reqs, n \in Names, e \in Emails :
        (PostUser(u, n, e) /\ \E row \in users : row.email = e) =>
           (ureq'[u].pc = "done" /\ ureq'[u].resp = 409 /\ users' = users)]_vars

\* a request for a stored email has been answered 409 and the stored row is
\* still the only one with that email
C8_Witness ==
  \E u \in Reqs :
    /\ ureq[u].pc = "done" /\ ureq[u].resp = 409
    /\ Cardinality({row \in users : row.email = ureq[u].email}) = 1

\* C9: no two user rows share an email, and no create-user request is turned
\* away for its email other than with 409, whatever the interleaving.
C9_UniqueAndConflict ==
  /\ \A r1, r2 \in users : r1.email = r2.email => r1 = r2
  /\ \A u \in Reqs : ureq[u].pc = "done" => ureq[u].resp \in {201, 400, 409}

\* C10: a request answered 400 or 404 has performed no store write and no
\* broadcast, and the step that rejects it changes neither store nor sockets.
C10_RejectedWritesNothing ==
  [][\A r \in Reqs :
        (req'[r] # req[r] /\ req'[r].pc = "done" /\ req'[r].resp \in {400, 404}) =>
           /\ req'[r].steps = <<>>
           /\ sessions' = sessions /\ messages' = messages
           /\ got' = got /\ emitted' = emitted /\ rooms' = rooms]_vars

\* with a message stored and broadcast, a message request for an unknown
\* session was answered 404
C10_Witness ==
  /\ \E m \in MsgIds : messages[m] # NoSession
  /\ emitted # {}
  /\ \E r \in Reqs : req[r].pc = "done" /\ req[r].resp = 404 /\ req[r].kind \in {"message", "messageV1"}

\* what C11 asks of the step that takes a message of `len` characters for
\* session `sid`, its body being well formed otherwise
Validated(r, len, sid) ==
  LET badContent == len = 0 \/ len > MAX_MESSAGE_LENGTH
      failures == (IF badContent THEN {400} ELSE {}) \cup (IF ~Exists(sid) THEN {404} ELSE {})
  IN IF failures # {} THEN req'[r].pc = "done" /\ req'[r].resp \in failures
     ELSE req'[r].pc = "addMessage" /\ req'[r].len = len /\ req'[r].sid = sid

\* C11: an incoming message is answered 400 when its content is empty or
\* longer than MAX_MESSAGE_LENGTH and 404 when its sessionId names no session;
\* it goes on to be stored only when neither is the case.
C11_LengthAndSessionChecked ==
  [][\A r \in Reqs, len \in Lens, ts \in 0..MaxTime, sid \in SessionIds :
       /\ PostMessage(r, "voice", len, ts, sid) => Validated(r, len, sid)
       /\ PostMessageV1(r, "createVoice", len, ts, sid) => Validated(r, len, sid)]_vars


\* how many times side effect a was performed in `steps`
Count(steps, a) == Cardinality({i \in 1..Len(steps) : steps[i] = a})

C13_ReadsInTimestampOrder ==
  [][\A r \in Reqs :
       GetSessionMessages(r) =>
         LET h == req'[r].rows IN
           /\ {h[i] : i \in 1..Len(h)} = SessionRows(req[r].sid)
           /\ Len(h) = Cardinality(SessionRows(req[r].sid))
           /\ \A i, j \in 1..Len(h) : i < j => stored[h[i]].ts <= stored[h[j]].ts]_vars

\* a read returned two messages of one session, the one submitted second
\* first, its timestamp being the earlier
C13_Witness ==
  \E r \in Reqs :
    /\ req[r].kind = "get" /\ req[r].pc = "done" /\ Len(req[r].rows) = 2
    /\ req[r].rows[1] > req[r].rows[2]
    /\ stored[req[r].rows[1]].ts < stored[req[r].rows[2]].ts


C17_RemovedOnlyByDelete ==
  [][/\ (\E s \in SessionIds : Exists(s) /\ sessions'[s].status = "absent")
          => \E r \in Reqs : DeleteSessionCommit(r)
     /\ \A m \in MsgIds : messages[m] # NoSession => messages'[m] = messages[m] /\ stored'[m] = stored[m]]_vars


\* C18: a cleanup pass leaves every session that is not both active and older
\* than the window exactly as it was: status, startTime, endTime and metadata.
C18_CleanupLeavesOthers ==
  [][cleanupExpiredSessions =>
       \A s \in SessionIds :
         ~(sessions[s].status = "active" /\ sessions[s].startTime + SessionTimeout < now)
           => (sessions'[s] = sessions[s] /\ blob'[s] = blob[s])]_vars

\* a pass has ended one session and passed over another, as old, that is paused
\* or was ended before
C18_Witness ==
  /\ cleanedCount = 1
  /\ \E s, t \in SessionIds :
       /\ sessions[s].status = "ended" /\ sessions[s].endTime = now /\ Expired(sessions[s])
       /\ \/ sessions[t].status = "paused" /\ Expired(sessions[t])
          \/ sessions[t].status = "ended" /\ Expired(sessions[t]) /\ sessions[t].endTime < now


\* C19: the agent, given a message longer than MAX_MESSAGE_LENGTH, returns at
\* once with no entities and no memories: generateText is never called for it
\* and the memory store is not written.
C19_TooLongShortCircuits ==
  /\ [][\A len \in 0..(MAX_MESSAGE_LENGTH + 1), n \in 0..MaxEntities :
          (AgentProcessMessage(len, n) /\ len > MAX_MESSAGE_LENGTH)
            => /\ task'.pc = "done" /\ task'.outcome = "resolved"
               /\ task'.entities = 0 /\ task'.memories = 0
               /\ task'.steps = <<>>
               /\ memStore' = memStore]_vars
  /\ [](task.kind = "agent" /\ task.len > MAX_MESSAGE_LENGTH
          => task.pc = "done" /\ task.steps = <<>> /\ task.entities = 0 /\ task.memories = 0)

\* the agent has answered a message that is too long, the memory store
\* holding rows from earlier messages
C19_Witness ==
  /\ task.kind = "agent" /\ task.len > MAX_MESSAGE_LENGTH
  /\ task.pc = "done" /\ task.outcome = "resolved"
  /\ memStore >= 1


\* C20: reading a session whose stored metadata is not JSON does not throw:
\* the read hands back the record, its metadata undefined.
C20_MalformedReadsUndefined ==
  [][\A r \in Reqs, sid \in SessionIds :
       (GetSession(r, sid) /\ Exists(sid) /\ blob[sid] = "garbage")
         => (req'[r].resp # 500 /\ req'[r].pc = "messages" /\ req'[r].meta = "undefined")]_vars


\* nothing has been served: no request taken, no session, no enrichment
Unserved ==
  /\ \A r \in Reqs : req[r] = IdleReq
  /\ \A s \in SessionIds : ~Exists(s)
  /\ task = IdleTask /\ memStore = 0

\* C21: started without its LiveKit credentials the process exits and never
\* serves a request; started with them it never exits for want of AI
\* credentials, and while the AI services are not configured a message given
\* to the enrichment is answered with empty results, not an error.
C21_FatalLiveKitDegradedAI ==
  /\ [](~proc.livekit => proc.phase \in {"loading", "exited"} /\ Unserved)
  /\ [][proc.phase = "loading" /\ ~proc.livekit /\ proc' # proc => proc'.phase = "exited"]_vars
  /\ [](proc.livekit => proc.phase # "exited")
  /\ [][\A n \in 0..MaxEntities :
          (ProcessMessage(n) /\ ~isConfigured)
            => /\ task'.pc = "done" /\ task'.outcome = "resolved" /\ ~task'.failed
               /\ task'.entities = 0 /\ task'.memories = 0]_vars

\* the process, started with LiveKit credentials and no AI service ready, has
\* created a session and answered an enrichment request with empty results
C21_Witness ==
  /\ proc = Serving /\ ~isConfigured
  /\ \E r \in Reqs : req[r].kind = "create" /\ req[r].resp = 201
  /\ task.kind = "processMessage" /\ task.pc = "done" /\ task.outcome = "resolved"


\* the step answers request r with 429
Answers429(r) == req'[r] # req[r] /\ req'[r].pc = "done" /\ req'[r].resp = 429

\* C22: a request is answered 429 exactly when the address it comes from has no
\* points left in the window (of the general limiter, or of the token limiter on
\* the routes that use it); a request counts only against its own address; and
\* socket events are neither counted nor refused.
C22_Only429WhenExhausted ==
  /\ [][\A r \in Reqs :
          Answers429(r) => (Exhausted("general", req'[r].ip)
                              \/ (req'[r].kind = "sessions" /\ Exhausted("token", req'[r].ip)))]_vars
  /\ [][\A r \in Reqs, ip \in IPs, route \in {"health", "sessions"} :
          (LimitedRequest(r, ip, route)
             /\ (Exhausted("general", ip) \/ (route = "sessions" /\ Exhausted("token", ip))))
            => req'[r].resp = 429]_vars
  /\ [][\A ip \in IPs :
          consumed'[ip] # consumed[ip]
            => \/ \E r \in Reqs, route \in {"health", "sessions"} : LimitedRequest(r, ip, route)
               \/ \E l \in Limiters : WindowExpires(ip, l)]_vars
  /\ [][sock' # sock => consumed' = consumed]_vars


\* the words of class `class` in the text
Positions(text, class) == {i \in 1..Len(text) : text[i] = class}

\* one e-mail address, one URL, and nothing the other patterns match: no
\* phone number, no date, and no two capitalised words in a row
OneEmailOneUrl(text) ==
  /\ Cardinality(Positions(text, "email")) = 1
  /\ Cardinality(Positions(text, "url")) = 1
  /\ Positions(text, "phone") = {} /\ Positions(text, "date") = {}
  /\ \A i \in 1..(Len(text) - 1) : ~(text[i] \in {"Cap", "Inc"} /\ text[i + 1] \in {"Cap", "Inc"})

\* C23: from a text holding one e-mail address, one URL and nothing else that
\* a pattern matches, every extraction path returns exactly two entities: an
\* email whose value is the address and a url whose value is the URL.
C23_OneEmailOneUrl ==
  (doc.path # "none" /\ OneEmailOneUrl(doc.text))
    => /\ Len(doc.entities) = 2
       /\ \E j, k \in 1..2 :
            /\ doc.entities[j].type = "email" /\ doc.text[doc.entities[j].value[1]] = "email"
            /\ doc.entities[j].value[1] = doc.entities[j].value[2]
            /\ doc.entities[k].type = "url" /\ doc.text[doc.entities[k].value[1]] = "url"
            /\ doc.entities[k].value[1] = doc.entities[k].value[2]

\* the server's extraction service has been given the example sentence
C23_Witness ==
  /\ doc.text = ExampleText /\ doc.path = "local"
  /\ Len(doc.entities) = 2

\* the confidence, in tenths, the specification fixes for a type (0: none fixed)
FixedConfidence(type) ==
  CASE type = "email" -> 9
    [] type = "url" -> 9
    [] type = "person" -> 8
    [] type = "organization" -> 7
    [] OTHER -> 0

\* C24: every entity of type email, url, person or organization carries the
\* confidence fixed for its type, whichever path extracted it.
C24_FixedConfidencePerType ==
  \A k \in 1..Len(doc.entities) :
    FixedConfidence(doc.entities[k].type) # 0
      => doc.entities[k].confidence = FixedConfidence(doc.entities[k].type)


\* C25: a session that is ended is never active or paused again, whatever
\* request or cleanup pass comes after.
C25_EndedIsTerminal ==
  [][\A s \in SessionIds :
       sessions[s].status = "ended" => sessions'[s].status \notin {"active", "paused"}]_vars


\* C26: when a cleanup pass has ended a session between a pause or update
\* handler's read of it as active and that handler's write, the write leaves
\* the session ended.
C26_WriteKeepsCleanupEnd ==
  [][\A r \in Reqs :
       (UpdateStatement(r) /\ req[r].kind \in {"pause", "put"}
          /\ req[r].read = "active" /\ sessions[req[r].sid].status = "ended")
         => sessions'[req[r].sid].status = "ended"]_vars


\* how many times message m stands in a list
Occurrences(list, m) == Cardinality({i \in 1..Len(list) : list[i] = m})

\* C27: a client that has joined session S, once, while messages were posted
\* to S has, when the requests are through, every message of S in its list
\* exactly once.
C27_EachMessageOnce ==
  \A c \in Clients : \A sid \in SessionIds :
    (/\ rooms[c] = {sid} /\ sock[c].pc = "idle"
     /\ Cardinality(Backlogs(inbox[c])) = 1
     /\ \A r \in Reqs : Free(r))
      => \A m \in SessionRows(sid) : Occurrences(ClientMessages(inbox[c]), m) = 1


\* C28: no message is stored or broadcast for a session that has ended: a
\* step taken while the session's row says ended adds no row for it to table
\* messages and emits no new_message for it.
C28_NothingForEndedSession ==
  [][\A sid \in SessionIds :
       sessions[sid].status = "ended"
         => /\ \A m \in MsgIds : messages'[m] = sid => messages[m] = sid
            /\ \A e \in emitted' \ emitted : e.sid # sid]_vars

\* C29: every row of table messages references a session that exists,
\* whichever way message submissions and deletes of the same session
\* interleave at their awaits.
C29_MessagesReferenceSessions ==
  \A m \in MsgIds : messages[m] # NoSession => Exists(messages[m])

\* a submission and a delete of one session have raced both ways: a delete was
\* refused for a session that has a message, and a submission that had seen
\* its session failed on a session deleted meanwhile
C29_Witness ==
  \E r, q \in Reqs :
    /\ req[r].kind = "delete" /\ req[r].pc = "done" /\ req[r].resp = 500
    /\ \E m \in MsgIds : messages[m] = req[r].sid
    /\ req[q].kind = "messageV1" /\ req[q].pc = "done" /\ req[q].resp = 500

\* C30: each store transaction is all-or-nothing with others in flight on
\* the pool: once through, a transaction that returned has both its
\* statements durable and one that threw has none, durable or waiting in
\* another's open transaction.
C30_AllOrNothing ==
  \A t \in Txs :
    pool.tx[t].pc = "done"
      => IF pool.tx[t].ok
         THEN \A k \in Stmts : <<t, k>> \in pool.durable
         ELSE \A k \in Stmts : /\ <<t, k>> \notin pool.durable
                                /\ \A c \in Conns : <<t, k>> \notin pool.pending[c]

====
